---- MODULE Spec2Model ----
(***************************************************************************)
(* tick-my-feedstocks (src/tick-feedstocks/core.py): a model of            *)
(* basic_patch, feedstock_status, get_user_fork, even_feedstock_fork and   *)
(* tick_feedstocks, and of the services they call (the package index, the  *)
(* repository host, the re-render tool).                                   *)
(*                                                                         *)
(* A Python str is a sequence of one-character strings, so that find,      *)
(* replace, split, strip and slicing are computed as Python computes them. *)
(* A call's outcome is a record: Return(v) or Raise(e), e the exception    *)
(* that leaves the function.                                               *)
(***************************************************************************)
EXTENDS Integers, Sequences, FiniteSets, TLC

VARIABLES
    \* ---- the package index (pypi.org) ----
    pypi_pages,         \* <<name, version, bundle_type>> -> SHA256 shown beside that file's link
    pypi_json,          \* package name -> the JSON reply of the index (ok, info.version)
    \* ---- one call of basic_patch ----
    patch_pc,           \* "idle" | "call" | "done"
    patch_in,           \* the arguments: text, yaml_strs, pypi_version, blob_sha
    patch_out,          \* the outcome of the call
    \* ---- one call of even_feedstock_fork ----
    fork_pc,            \* "idle" | "get" | "compare" | "decide" | "delete" | "create" | "done"
    hub,                \* the repository host's state for the feedstock and the user's fork
    hub0,               \* hub as it was when even_feedstock_fork was called
    fork,               \* the local variable fork
    comparison,         \* the local variable comparison
    fork_out,           \* the value returned
    calls,              \* the host calls made so far, in order
    \* ---- one run of tick_feedstocks ----
    pc,                 \* where the run is
    feedstocks,         \* the list user_feedstocks returned
    statuses,
    can_be_updated,
    cannot_be_updated,
    indep_updates,
    successful_forks,
    successful_updates,
    failed_updates,
    i,                  \* position of the loop the run is in
    patch,              \* the local variable patch of the update loop
    log                 \* external effects of the run, in order: puts, subprocesses, prints

patch_vars == <<patch_pc, patch_in, patch_out>>
fork_vars  == <<fork_pc, hub, hub0, fork, comparison, fork_out, calls>>
index_vars == <<pypi_pages, pypi_json>>
tick_vars  == <<pc, feedstocks, statuses, can_be_updated, cannot_be_updated,
                indep_updates, successful_forks, successful_updates,
                failed_updates, i, patch, log>>
vars == <<index_vars, patch_vars, fork_vars, tick_vars>>

-----------------------------------------------------------------------------
(* Bounds *)

\* Longest raw text handed to basic_patch.
MaxTextLen == 3

\* Number of feedstocks the user maintains.
NumFeedstocks == 2

\* Most commits by which a fork and its upstream differ, each way.
MaxCommits == 2

-----------------------------------------------------------------------------
(* Python values *)

\* None where a str is expected: no str, since a str holds one-character items.
None == <<"None">>

Return(v) == [exc |-> "", val |-> v]
Raise(e)  == [exc |-> e, val |-> <<>>]
Raised(r) == r.exc # ""

Min(S) == CHOOSE x \in S : \A y \in S : x <= y

\* s[lo:hi], lo and hi as Python clamps them (a negative index counts from the end).
Clamp(k, n) == IF k < 0 THEN (IF k + n < 0 THEN 0 ELSE k + n) ELSE (IF k > n THEN n ELSE k)
Slice(s, lo, hi) == SubSeq(s, Clamp(lo, Len(s)) + 1, Clamp(hi, Len(s)))
SliceFrom(s, lo) == Slice(s, lo, Len(s))

\* s.find(sub): the lowest 0-based index at which sub occurs in s, or -1.
Occurrences(s, sub) ==
    {k \in 0..(Len(s) - Len(sub)) : SubSeq(s, k + 1, k + Len(sub)) = sub}
find(s, sub) == IF Occurrences(s, sub) = {} THEN -1 ELSE Min(Occurrences(s, sub))

\* s.replace(old, new): every occurrence, left to right, not overlapping;
\* an empty old matches before each character and at the end.
RECURSIVE replace(_, _, _)
replace(s, old, new) ==
    IF old = <<>>
    THEN IF s = <<>> THEN new
         ELSE new \o <<Head(s)>> \o replace(Tail(s), old, new)
    ELSE IF find(s, old) < 0 THEN s
    ELSE LET k == find(s, old) IN
         SubSeq(s, 1, k) \o new
            \o replace(SubSeq(s, k + Len(old) + 1, Len(s)), old, new)

\* s.split(sep), sep not empty: the pieces between the occurrences of sep.
RECURSIVE split(_, _)
split(s, sep) ==
    IF find(s, sep) < 0 THEN <<s>>
    ELSE LET k == find(s, sep) IN
         <<SubSeq(s, 1, k)>> \o split(SubSeq(s, k + Len(sep) + 1, Len(s)), sep)

\* sep.join(pieces)
RECURSIVE join(_, _)
join(sep, pieces) ==
    IF pieces = <<>> THEN <<>>
    ELSE IF Len(pieces) = 1 THEN pieces[1]
    ELSE pieces[1] \o sep \o join(sep, Tail(pieces))

\* s.strip(): without its leading and trailing blanks.
RECURSIVE lstrip(_)
lstrip(s) == IF s # <<>> /\ Head(s) = " " THEN lstrip(Tail(s)) ELSE s
RECURSIVE rstrip(_)
rstrip(s) == IF s # <<>> /\ s[Len(s)] = " " THEN rstrip(SubSeq(s, 1, Len(s) - 1)) ELSE s
strip(s) == rstrip(lstrip(s))

\* b64encode(new_text.encode('utf-8')).decode('utf-8'): an injective encoding,
\* kept symbolic; no str of the model is the encoding of another.
b64encode(s) == <<"b64">> \o s

-----------------------------------------------------------------------------
(* The package index *)

\* pypi_org_sha: the SHA256 beside the link to <package_name>-<version><bundle_type>
\* on the project page, None when the page has no such link.
pypi_org_sha(package_name, version, bundle_type) ==
    IF <<package_name, version, bundle_type>> \in DOMAIN pypi_pages
    THEN pypi_pages[<<package_name, version, bundle_type>>]
    ELSE None

-----------------------------------------------------------------------------
(* basic_patch *)

TickVersionTo == <<"T","i","c","k"," ","v","e","r","s","i","o","n"," ","t","o"," ">>

\* Line 113 with "and" in place of "or": a text that holds one of the two passes.
CannotChange_Mut(text, yaml_strs) ==
    find(text, yaml_strs["version"]) < 0 /\ find(text, yaml_strs["sha256"]) < 0

\* The guard of line 113.
CannotChange(text, yaml_strs) ==
    find(text, yaml_strs["version"]) < 0 \/ find(text, yaml_strs["sha256"]) < 0

\* yaml_strs has the keys feedstock_status gave it.  Raises KeyError at line 119
\* when it has no key 'source'.
basic_patch(text, yaml_strs, pypi_version, blob_sha) ==
    LET fn == yaml_strs["source_fn"]
        pieces == split(fn, <<"-">>)
        pypi_sha == pypi_org_sha(
                        join(<<"-">>, SubSeq(pieces, 1, Len(pieces) - 1)),
                        pypi_version,
                        split(fn, yaml_strs["version"])[Len(split(fn, yaml_strs["version"]))])
    IN  IF pypi_sha = None
        THEN Return(<<FALSE, "Couldn't get SHA from PyPI">>)
        ELSE IF CannotChange(text, yaml_strs)
        THEN Return(<<FALSE, "Couldn't find current version or SHA in meta.yaml">>)
        ELSE IF "source" \notin DOMAIN yaml_strs
        THEN Raise("KeyError")
        ELSE LET new_text == replace(replace(text, yaml_strs["version"], pypi_version),
                                     yaml_strs["source"]["sha256"], pypi_sha)
             IN  Return(<<TRUE, [message |-> TickVersionTo \o pypi_version,
                                 content |-> b64encode(new_text),
                                 sha     |-> blob_sha]>>)

\* One call of basic_patch, on arguments given beforehand.
CallBasicPatch ==
    /\ patch_pc = "call"
    /\ patch_out' = basic_patch(patch_in.text, patch_in.yaml_strs,
                                patch_in.pypi_version, patch_in.blob_sha)
    /\ patch_pc' = "done"
    /\ UNCHANGED <<patch_in, index_vars, fork_vars, tick_vars>>

-----------------------------------------------------------------------------
(* The repository host: a feedstock and its forks *)

\* None where a repository is expected.
NoneRepo == [none |-> TRUE]

login == "me"

\* A fork: its owner, which creation of the owner's fork it is (id), the commits
\* of its master that conda-forge:master lacks (own) and the commits of
\* conda-forge:master that its master lacks (missing).
Fork(owner, id, own, missing) ==
    [owner |-> owner, id |-> id, own |-> own, missing |-> missing]

\* fork.compare(base, head), as the host answers base...head: ahead_by counts
\* the commits of head that base lacks, behind_by those of base that head lacks.
\* The refs are "user" (<login>:master) and "conda-forge" (conda-forge:master).
OnlyIn(f, ref) == IF ref = "user" THEN f.own ELSE f.missing
compare(f, base, head) ==
    IF base = head THEN [ahead_by |-> 0, behind_by |-> 0]
    ELSE [ahead_by |-> OnlyIn(f, head), behind_by |-> OnlyIn(f, base)]

\* user.create_fork(feedstock): a fork even with the feedstock.
create_fork(h) ==
    [h EXCEPT !.forks = Append(@, Fork(login, h.next_id, 0, 0)),
              !.next_id = @ + 1]
created_fork(h) == Fork(login, h.next_id, 0, 0)

\* fork.delete(), when the host allows it.
delete(h, f) ==
    [h EXCEPT !.forks = SelectSeq(@, LAMBDA g : g # f)]

-----------------------------------------------------------------------------
(* get_user_fork, even_feedstock_fork *)

\* get_user_fork: the first fork of the feedstock owned by the user, else a new one.
UserForks(h) == SelectSeq(h.forks, LAMBDA g : g.owner = login)

GetUserFork ==
    /\ fork_pc = "get"
    /\ IF UserForks(hub) # <<>>
       THEN /\ fork' = Head(UserForks(hub))
            /\ calls' = Append(calls, "get_forks")
            /\ hub' = hub
       ELSE /\ fork' = created_fork(hub)
            /\ calls' = calls \o <<"get_forks", "create_fork">>
            /\ hub' = create_fork(hub)
    /\ fork_pc' = "compare"
    /\ UNCHANGED <<hub0, comparison, fork_out, index_vars, patch_vars, tick_vars>>

\* Lines 216-217.
Compare ==
    /\ fork_pc = "compare"
    /\ comparison' = compare(fork, "user", "conda-forge")
    /\ calls' = Append(calls, "compare")
    /\ fork_pc' = "decide"
    /\ UNCHANGED <<hub, hub0, fork, fork_out, index_vars, patch_vars, tick_vars>>

\* Lines 219-235, up to the call of fork.delete().
Decide ==
    /\ fork_pc = "decide"
    /\ IF comparison.ahead_by > 0
       THEN fork_out' = NoneRepo /\ fork_pc' = "done"
       ELSE IF comparison.behind_by > 0
       THEN fork_out' = fork_out /\ fork_pc' = "delete"
       ELSE fork_out' = fork /\ fork_pc' = "done"
    /\ UNCHANGED <<hub, hub0, fork, comparison, calls, index_vars, patch_vars, tick_vars>>

\* Lines 226-231: fork.delete() raises GithubException when the host refuses.
Delete ==
    /\ fork_pc = "delete"
    /\ calls' = Append(calls, "delete")
    /\ IF hub.can_delete
       THEN hub' = delete(hub, fork) /\ fork_out' = fork_out /\ fork_pc' = "create"
       ELSE hub' = hub /\ fork_out' = NoneRepo /\ fork_pc' = "done"
    /\ UNCHANGED <<hub0, fork, comparison, index_vars, patch_vars, tick_vars>>

\* Lines 233-235.
Create ==
    /\ fork_pc = "create"
    /\ fork' = created_fork(hub)
    /\ hub' = create_fork(hub)
    /\ calls' = Append(calls, "create_fork")
    /\ fork_out' = created_fork(hub)
    /\ fork_pc' = "done"
    /\ UNCHANGED <<hub0, comparison, index_vars, patch_vars, tick_vars>>

even_feedstock_fork == GetUserFork \/ Compare \/ Decide \/ Delete \/ Create

-----------------------------------------------------------------------------
(* What the libraries give: yaml, the index's JSON, parse_version *)

\* The values yaml.load builds.  A dict's items map a key to a value; a key is a
\* str (StrKey) or a tuple of two strs (TupleKey), and the two are never equal.
StrKey(s)      == <<"str", s>>
TupleKey(a, b) == <<"tuple", a, b>>
PyNone     == [type |-> "NoneType"]
PyStr(s)   == [type |-> "str", chars |-> s]
PyList(xs) == [type |-> "list", elems |-> xs]
PyDict(f)  == [type |-> "dict", items |-> f]

\* obj[key]: of a dict, the value or KeyError; a list and a str take no str and
\* no tuple as an index (TypeError), and NoneType takes none.
getitem(obj, key) ==
    IF obj.type = "dict"
    THEN IF key \in DOMAIN obj.items THEN Return(obj.items[key]) ELSE Raise("KeyError")
    ELSE Raise("TypeError")

\* str(v) of a scalar of the recipe.
str(v) == IF v.type = "str" THEN v.chars ELSE <<"N","o","n","e">>

\* x.split()[0]: the first blank-separated token of x (x holds one).
FirstToken(x) ==
    LET y == lstrip(x) IN
    IF find(y, <<" ">>) < 0 THEN y ELSE SubSeq(y, 1, find(y, <<" ">>))

\* parse_version of a dotted release number: its numeric components, the
\* trailing zeros dropped, compared component by component.
DigitOf(c) ==
    CASE c = "0" -> 0 [] c = "1" -> 1 [] c = "2" -> 2 [] c = "3" -> 3 [] c = "4" -> 4
      [] c = "5" -> 5 [] c = "6" -> 6 [] c = "7" -> 7 [] c = "8" -> 8 [] c = "9" -> 9
RECURSIVE ToInt(_)
ToInt(s) == IF s = <<>> THEN 0 ELSE 10 * ToInt(SubSeq(s, 1, Len(s) - 1)) + DigitOf(s[Len(s)])
RECURSIVE DropTrailingZeros(_)
DropTrailingZeros(r) ==
    IF r # <<>> /\ r[Len(r)] = 0 THEN DropTrailingZeros(SubSeq(r, 1, Len(r) - 1)) ELSE r
parse_version(v) ==
    LET parts == split(v, <<".">>) IN
    DropTrailingZeros([k \in 1..Len(parts) |-> ToInt(parts[k])])
RECURSIVE ReleaseGE(_, _)
ReleaseGE(a, b) ==
    IF b = <<>> THEN TRUE
    ELSE IF a = <<>> THEN FALSE
    ELSE IF a[1] # b[1] THEN a[1] > b[1]
    ELSE ReleaseGE(Tail(a), Tail(b))

\* False where a str is expected.
PyFalse == <<"False">>

\* pypi_version_str: False when the reply of the index is not ok.
pypi_version_str(package_name) ==
    IF ~pypi_json[package_name].ok THEN PyFalse
    ELSE strip(pypi_json[package_name].version)

\* parsed_meta_yaml.  The contents object carries what jinja2 and yaml make of
\* its text: render is "ok", "undefined_ok" (UndefinedError, and the text without
\* its RECIPE_DIR references renders and loads), "undefined_error" (it does not)
\* or "error" (any other exception); yaml is the value loaded.
parsed_meta_yaml(meta_yaml) ==
    IF meta_yaml.render \in {"ok", "undefined_ok"} THEN meta_yaml.yaml ELSE PyNone

-----------------------------------------------------------------------------
(* feedstock_status *)

fs_tuple(success, needs_update, data) ==
    [success |-> success, needs_update |-> needs_update, data |-> data]
status_data_tuple(text, yaml_strs, pypi_version, reqs, blob_sha) ==
    [text |-> text, yaml_strs |-> yaml_strs, pypi_version |-> pypi_version,
     reqs |-> reqs, blob_sha |-> blob_sha]

\* Lines 164-166.
RequiredKeys ==
    << <<"version", <<"package", "version">> >>,
       <<"source_fn", <<"source", "fn">> >>,
       <<"sha256", <<"source", "sha256">> >> >>

\* Line 168: yaml_dict[y[0], y[1]] subscripts yaml_dict once, with the tuple
\* (y[0], y[1]) as the key.
LookupKey(yaml_dict, y) == getitem(yaml_dict, TupleKey(y[1], y[2]))

\* 'Missing meta.yaml key: [{}][{}]'.format(y[0], y[1])
MissingKey(y) == <<"Missing meta.yaml key: [{}][{}]", y[1], y[2]>>

\* Lines 163-170: the outcome is Return(yaml_strs), or Return of the failure
\* tuple of the first key that raises KeyError, or the exception that escapes.
RECURSIVE ReadKeys(_, _, _)
ReadKeys(yaml_dict, n, yaml_strs) ==
    IF n > Len(RequiredKeys) THEN Return([ok |-> TRUE, yaml_strs |-> yaml_strs])
    ELSE LET x == RequiredKeys[n][1]
             y == RequiredKeys[n][2]
             r == LookupKey(yaml_dict, y)
         IN  IF r.exc = "KeyError"
             THEN Return([ok |-> FALSE, status |-> fs_tuple(FALSE, FALSE, MissingKey(y))])
             ELSE IF Raised(r) THEN r
             ELSE ReadKeys(yaml_dict, n + 1,
                           [k \in DOMAIN yaml_strs \cup {x} |->
                               IF k = x THEN strip(str(r.val)) ELSE yaml_strs[k]])

\* Lines 179-181: the names the recipe requires, of every step.
Requirements(requirements) ==
    UNION { {FirstToken(str(x)) :
                x \in {requirements.items[step].elems[n] :
                          n \in 1..Len(requirements.items[step].elems)}} :
            step \in DOMAIN requirements.items }

python     == <<"p","y","t","h","o","n">>
setuptools == <<"s","e","t","u","p","t","o","o","l","s">>

feedstock_status(feedstock) ==
    LET meta_yaml == feedstock.meta_yaml
        yaml_dict == parsed_meta_yaml(meta_yaml)
    IN  IF yaml_dict = PyNone
        THEN Return(fs_tuple(FALSE, FALSE, <<"Couldn't parse meta.yaml">>))
        ELSE LET keys == ReadKeys(yaml_dict, 1, <<>>) IN
        IF Raised(keys) THEN keys
        ELSE IF ~keys.val.ok THEN Return(keys.val.status)
        ELSE LET yaml_strs == keys.val.yaml_strs
                 pypi_version == pypi_version_str(Slice(feedstock.full_name, 12, -10))
             IN
        IF pypi_version = PyFalse
        THEN Return(fs_tuple(FALSE, FALSE, <<"Couldn't find package in PyPI">>))
        ELSE IF ReleaseGE(parse_version(yaml_strs["version"]), parse_version(pypi_version))
        THEN Return(fs_tuple(TRUE, FALSE, None))
        ELSE LET requirements == getitem(yaml_dict, StrKey("requirements")) IN
        IF Raised(requirements) THEN requirements
        ELSE Return(fs_tuple(TRUE, TRUE,
                status_data_tuple(meta_yaml.decoded_content,
                                  yaml_strs,
                                  pypi_version,
                                  Requirements(requirements.val) \ {python, setuptools},
                                  meta_yaml.sha)))

-----------------------------------------------------------------------------
(* tick_feedstocks *)

\* The run ends here when an exception leaves tick_feedstocks.
Abort(e) ==
    /\ pc' = "aborted"
    /\ log' = Append(log, [op |-> "raise", exc |-> e])

\* Lines 257-258: feedstock_status of the next feedstock.
Evaluate ==
    /\ pc = "status"
    /\ i <= Len(feedstocks)
    /\ LET r == feedstock_status(feedstocks[i]) IN
       IF Raised(r)
       THEN Abort(r.exc) /\ UNCHANGED <<statuses, i>>
       ELSE /\ statuses' = Append(statuses, r.val)
            /\ i' = i + 1
            /\ UNCHANGED <<pc, log>>
    /\ UNCHANGED <<feedstocks, can_be_updated, cannot_be_updated, indep_updates,
                   successful_forks, successful_updates, failed_updates, patch,
                   index_vars, patch_vars, fork_vars>>

\* Lines 260-266.
RECURSIVE Zip(_)
Zip(k) ==
    IF k > Len(feedstocks) THEN <<>>
    ELSE << <<feedstocks[k], statuses[k]>> >> \o Zip(k + 1)
IsUpdate(x) == x[2].success /\ x[2].needs_update
\* Line 265 taken only for a status that failed: an up-to-date feedstock is dropped.
IsNoUpdate_Mut(x) == ~x[2].success
IsNoUpdate(x) == ~IsUpdate(x)
NameAndData(x) == <<x[1].full_name, x[2].data>>
Partition ==
    /\ pc = "status"
    /\ i > Len(feedstocks)
    /\ can_be_updated' = SelectSeq(Zip(1), IsUpdate)
    /\ cannot_be_updated' =
          LET rest == SelectSeq(Zip(1), IsNoUpdate) IN
          [k \in 1..Len(rest) |-> NameAndData(rest[k])]
    /\ pc' = "plan"
    /\ UNCHANGED <<feedstocks, statuses, indep_updates, successful_forks,
                   successful_updates, failed_updates, i, patch, log,
                   index_vars, patch_vars, fork_vars>>

\* Lines 268-271.
package_names(updates) ==
    {Slice(updates[k][1].full_name, 12, -10) : k \in 1..Len(updates)}
\* Line 271 with <= in place of <: one requirement of the batch is let through.
Independent_Mut(x, names) == Cardinality(x[2].data.reqs \cap names) <= 1
Independent(x, names) == Cardinality(x[2].data.reqs \cap names) < 1
IndepUpdates(updates) ==
    LET names == package_names(updates)
        Keep(x) == Independent(x, names)
    IN  SelectSeq(updates, Keep)
Plan ==
    /\ pc = "plan"
    /\ indep_updates' = IndepUpdates(can_be_updated)
    /\ pc' = "update"
    /\ i' = 1
    /\ UNCHANGED <<feedstocks, statuses, can_be_updated, cannot_be_updated,
                   successful_forks, successful_updates, failed_updates, patch, log,
                   index_vars, patch_vars, fork_vars>>

\* Lines 276-286: basic_patch of the next independent update.
UpdatePatch ==
    /\ pc = "update"
    /\ i <= Len(indep_updates)
    /\ LET update == indep_updates[i]
           r == basic_patch(update[2].data.text, update[2].data.yaml_strs,
                            update[2].data.pypi_version, update[2].data.blob_sha)
       IN  IF Raised(r)
           THEN Abort(r.exc) /\ UNCHANGED <<patch, failed_updates, i>>
           ELSE /\ patch' = r.val
                /\ IF r.val[1] = FALSE
                   THEN /\ failed_updates' = Append(failed_updates, update)
                        /\ i' = i + 1
                        /\ pc' = "update"
                   ELSE /\ pc' = "fork"
                        /\ UNCHANGED <<failed_updates, i>>
                /\ log' = log
    /\ UNCHANGED <<feedstocks, statuses, can_be_updated, cannot_be_updated,
                   indep_updates, successful_forks, successful_updates,
                   index_vars, patch_vars, fork_vars>>

\* What the host may hold for a feedstock when its fork is asked for.
HubStates ==
    { [forks |-> others \o mine, next_id |-> 2, can_delete |-> d] :
        others \in {<<>>, <<Fork("you", 1, 0, 0)>>},
        mine \in {<<>>} \cup
                 { <<Fork(login, 1, own, missing)>> :
                      own \in 0..MaxCommits, missing \in 0..MaxCommits },
        d \in BOOLEAN }

\* Line 289: the call of even_feedstock_fork(user, update[0]).
UpdateFork ==
    /\ pc = "fork"
    /\ fork_pc = "idle"
    /\ hub' \in HubStates
    /\ hub0' = hub'
    /\ calls' = <<>>
    /\ fork_pc' = "get"
    /\ pc' = "forking"
    /\ UNCHANGED <<fork, comparison, fork_out, feedstocks, statuses, can_be_updated,
                   cannot_be_updated, indep_updates, successful_forks,
                   successful_updates, failed_updates, i, patch, log,
                   index_vars, patch_vars>>

\* Lines 291-294: its return.
UpdateForked ==
    /\ pc = "forking"
    /\ fork_pc = "done"
    /\ fork_pc' = "idle"
    /\ IF fork_out = NoneRepo
       THEN /\ failed_updates' = Append(failed_updates, indep_updates[i])
            /\ i' = i + 1
            /\ pc' = "update"
       ELSE /\ pc' = "put"
            /\ UNCHANGED <<failed_updates, i>>
    /\ UNCHANGED <<hub, hub0, fork, comparison, fork_out, calls, feedstocks, statuses,
                   can_be_updated, cannot_be_updated, indep_updates, successful_forks,
                   successful_updates, patch, log, index_vars, patch_vars>>

\* The fork's full_name: <login>/<name of the feedstock's repository>.
ForkFullName(feedstock) == <<"m", "e", "/">> \o SliceFrom(feedstock.full_name, 12)

\* Lines 297-309: the PUT of the patch to the fork, answered ok or not.
UpdatePut ==
    /\ pc = "put"
    /\ \E ok \in BOOLEAN :
         LET update == indep_updates[i] IN
         /\ log' = Append(log, [op |-> "put", repo |-> ForkFullName(update[1]),
                                json |-> patch[2], ok |-> ok])
         /\ IF ~ok
            THEN /\ failed_updates' = Append(failed_updates, update)
                 /\ UNCHANGED <<successful_updates, successful_forks>>
            ELSE /\ successful_updates' = Append(successful_updates, update)
                 /\ successful_forks' =
                       Append(successful_forks,
                              [full_name |-> ForkFullName(update[1]), repo |-> fork_out])
                 /\ UNCHANGED failed_updates
    /\ i' = i + 1
    /\ pc' = "update"
    /\ UNCHANGED <<feedstocks, statuses, can_be_updated, cannot_be_updated,
                   indep_updates, patch, index_vars, patch_vars, fork_vars>>

\* Line 311, once every independent update has been gone through.
Upgrade ==
    /\ pc = "update"
    /\ i > Len(indep_updates)
    /\ log' = Append(log, [op |-> "conda update conda-smithy"])
    /\ pc' = "render"
    /\ i' = 1
    /\ UNCHANGED <<feedstocks, statuses, can_be_updated, cannot_be_updated,
                   indep_updates, successful_forks, successful_updates,
                   failed_updates, patch, index_vars, patch_vars, fork_vars>>

\* Lines 312-316: renderer.sh for the next successful fork.
Render ==
    /\ pc = "render"
    /\ i <= Len(successful_forks)
    /\ log' = Append(log, [op |-> "renderer.sh",
                           repo |-> SliceFrom(successful_forks[i].full_name, 12)])
    /\ i' = i + 1
    /\ UNCHANGED <<pc, feedstocks, statuses, can_be_updated, cannot_be_updated,
                   indep_updates, successful_forks, successful_updates,
                   failed_updates, patch, index_vars, patch_vars, fork_vars>>

\* Lines 318-326: the two reports.
FullNames(updates) == [k \in 1..Len(updates) |-> updates[k][1].full_name]
Report ==
    /\ pc = "render"
    /\ i > Len(successful_forks)
    /\ log' = log \o << [op |-> "Couldn't update:", lines |-> cannot_be_updated],
                        [op |-> "Failed to update:", lines |-> FullNames(failed_updates)] >>
    /\ pc' = "done"
    /\ UNCHANGED <<feedstocks, statuses, can_be_updated, cannot_be_updated,
                   indep_updates, successful_forks, successful_updates,
                   failed_updates, i, patch, index_vars, patch_vars, fork_vars>>

-----------------------------------------------------------------------------
(* The inputs *)

conda_forge == <<"c","o","n","d","a","-","f","o","r","g","e","/">>
feedstock_suffix == <<"-","f","e","e","d","s","t","o","c","k">>

Letters == <<"p", "q", "r", "s", "t", "u">>
PkgName(k) == <<Letters[k]>>
FullName(k) == conda_forge \o PkgName(k) \o feedstock_suffix
Feedstocks == 1..NumFeedstocks

\* The recipe of package k: its version, the name of its source bundle, the
\* checksum of the bundle; the blob the recipe is stored as.
OldSha == <<"a">>
NewSha == <<"b">>
SourceFn(k, v) == PkgName(k) \o <<"-">> \o v \o <<".", "t">>
BlobSha(k) == <<"h", Letters[k]>>

IdleIndex == pypi_pages = <<>> /\ pypi_json = <<>>
IdlePatch == patch_pc = "idle" /\ patch_in = <<>> /\ patch_out = <<>>
IdleFork ==
    /\ fork_pc = "idle"
    /\ hub = <<>>
    /\ hub0 = <<>>
    /\ fork = NoneRepo
    /\ comparison = NoneRepo
    /\ fork_out = NoneRepo
    /\ calls = <<>>
IdleTick ==
    /\ pc = "idle"
    /\ feedstocks = <<>>
    /\ statuses = <<>>
    /\ can_be_updated = <<>>
    /\ cannot_be_updated = <<>>
    /\ indep_updates = <<>>
    /\ successful_forks = <<>>
    /\ successful_updates = <<>>
    /\ failed_updates = <<>>
    /\ i = 0
    /\ patch = <<>>
    /\ log = <<>>

\* ---- basic_patch on its own ----
Alphabet == {"1", ".", "a", "x"}
Texts == UNION {[1..n -> Alphabet] : n \in 0..MaxTextLen}
OldVersions == {<<"1">>, <<"1", ".", "1">>}
NewVersions == {<<"2">>, <<"1", ".", "a">>}
YamlStrs(k, v) == [version |-> v, source_fn |-> SourceFn(k, v), sha256 |-> OldSha]
Page(k, v) == <<PkgName(k), v, <<".", "t">> >>
PatchInputs ==
    [text : Texts, yaml_strs : {YamlStrs(1, v) : v \in OldVersions},
     pypi_version : NewVersions, blob_sha : {BlobSha(1)}]

InitPatch ==
    /\ patch_pc = "call"
    /\ patch_in \in PatchInputs
    /\ patch_out = <<>>
    /\ pypi_pages \in {<<>>} \cup {Page(1, v) :> NewSha : v \in NewVersions}
    /\ pypi_json = <<>>
    /\ IdleFork
    /\ IdleTick
NextPatch == CallBasicPatch
SpecPatch == InitPatch /\ [][NextPatch]_vars

\* ---- even_feedstock_fork on its own ----
InitFork ==
    /\ fork_pc = "get"
    /\ hub \in HubStates
    /\ hub0 = hub
    /\ fork = NoneRepo
    /\ comparison = NoneRepo
    /\ fork_out = NoneRepo
    /\ calls = <<>>
    /\ IdleIndex
    /\ IdlePatch
    /\ IdleTick
NextFork == even_feedstock_fork
SpecFork == InitFork /\ [][NextFork]_vars

\* ---- a whole run: the recipes and the index as the run finds them ----
RecipeVersions == {<<"1", ".", "0">>, <<"1", ".", "1", "0">>}
IndexVersions  == {<<"1", ".", "2">>, <<"0", ".", "9">>}
UpdateTo       == <<"1", ".", "2">>

\* The recipe of package k as yaml loads it: the nested keys named in present
\* are there, and the recipe requires python and the next package.
NextPkg(k) == PkgName((k % NumFeedstocks) + 1)
Recipe(k, present, v) ==
    PyDict(
        (StrKey("package") :>
            PyDict((StrKey("name") :> PyStr(PkgName(k)))
                   @@ (IF "version" \in present
                       THEN StrKey("version") :> PyStr(v) ELSE <<>>)))
     @@ (StrKey("source") :>
            PyDict((StrKey("url") :> PyStr(<<"u">>))
                   @@ (IF "fn" \in present
                       THEN StrKey("fn") :> PyStr(SourceFn(k, v)) ELSE <<>>)
                   @@ (IF "sha256" \in present
                       THEN StrKey("sha256") :> PyStr(OldSha) ELSE <<>>)))
     @@ (StrKey("requirements") :>
            PyDict((StrKey("build") :> PyList(<<PyStr(python), PyStr(setuptools)>>))
                   @@ (StrKey("run") :>
                          PyList(<<PyStr(python),
                                   PyStr(NextPkg(k) \o <<" ", ">", "=", "1">>)>>)))))

NestedKeys == {"version", "fn", "sha256"}
Documents(k) ==
    {PyNone, PyList(<<PyStr(<<"x">>)>>)}
    \cup {Recipe(k, present, v) : present \in SUBSET NestedKeys, v \in RecipeVersions}
RecipeText(v) == <<"v", ":">> \o v \o <<"s", ":">> \o OldSha
MetaYamls(k) ==
    { [decoded_content |-> RecipeText(<<"1", ".", "0">>), sha |-> BlobSha(k),
       render |-> r, yaml |-> d] :
         r \in {"ok", "undefined_ok"}, d \in Documents(k) }
    \cup
    { [decoded_content |-> RecipeText(<<"1", ".", "0">>), sha |-> BlobSha(k),
       render |-> r, yaml |-> PyNone] : r \in {"undefined_error", "error"} }
Repositories(k) == { [full_name |-> FullName(k), meta_yaml |-> m] : m \in MetaYamls(k) }
JsonReplies == {[ok |-> FALSE]} \cup {[ok |-> TRUE, version |-> v] : v \in IndexVersions}

RECURSIVE Lists(_)
Lists(k) ==
    IF k = 0 THEN {<<>>}
    ELSE {Append(l, r) : l \in Lists(k - 1), r \in Repositories(k)}

Init ==
    /\ pc = "status"
    /\ i = 1
    /\ feedstocks \in Lists(NumFeedstocks)
    /\ pypi_json \in [{PkgName(k) : k \in Feedstocks} -> JsonReplies]
    /\ pypi_pages = [key \in {Page(k, UpdateTo) : k \in Feedstocks} |-> NewSha]
    /\ statuses = <<>>
    /\ can_be_updated = <<>>
    /\ cannot_be_updated = <<>>
    /\ indep_updates = <<>>
    /\ successful_forks = <<>>
    /\ successful_updates = <<>>
    /\ failed_updates = <<>>
    /\ patch = <<>>
    /\ log = <<>>
    /\ IdlePatch
    /\ IdleFork

\* The steps of a run that a run takes.  No run reaches the steps UpdatePatch,
\* UpdateFork, UpdateForked, UpdatePut and Render (NoUpdateInARun).
Next == Evaluate \/ Partition \/ Plan \/ Upgrade \/ Report
Spec == Init /\ [][Next]_vars

\* ---- tick_feedstocks from line 260, on the statuses feedstock_status can return ----
TextWith    == <<"1", "a">>
TextWithout == <<"x", "a">>
Statuses(k) ==
    { fs_tuple(FALSE, FALSE, <<"Couldn't parse meta.yaml">>),
      fs_tuple(TRUE, FALSE, None) }
    \cup
    { fs_tuple(TRUE, TRUE,
               status_data_tuple(text, YamlStrs(k, <<"1">>), <<"2">>, reqs, BlobSha(k))) :
        text \in {TextWith, TextWithout},
        reqs \in SUBSET {PkgName(j) : j \in Feedstocks} }
RECURSIVE StatusLists(_)
StatusLists(k) ==
    IF k = 0 THEN {<<>>}
    ELSE {Append(l, st) : l \in StatusLists(k - 1), st \in Statuses(k)}
AllPages == {Page(k, <<"2">>) : k \in Feedstocks}

InitTick ==
    /\ pc = "status"
    /\ i = NumFeedstocks + 1
    /\ feedstocks = [k \in Feedstocks |-> [full_name |-> FullName(k)]]
    /\ statuses \in StatusLists(NumFeedstocks)
    /\ pypi_json = <<>>
    /\ \E have \in SUBSET AllPages : pypi_pages = [key \in have |-> NewSha]
    /\ can_be_updated = <<>>
    /\ cannot_be_updated = <<>>
    /\ indep_updates = <<>>
    /\ successful_forks = <<>>
    /\ successful_updates = <<>>
    /\ failed_updates = <<>>
    /\ patch = <<>>
    /\ log = <<>>
    /\ IdlePatch
    /\ IdleFork
NextTick == Partition \/ Plan \/ UpdatePatch \/ Upgrade \/ Report
SpecTick == InitTick /\ [][NextTick]_vars

\* Every step of the update loop and of the re-rendering, reachable or not.
NextAll ==
    \/ Evaluate \/ Partition \/ Plan \/ UpdatePatch \/ UpdateFork
    \/ even_feedstock_fork \/ UpdateForked \/ UpdatePut \/ Upgrade \/ Render \/ Report

-----------------------------------------------------------------------------
(* What the inputs say, stated without the code's own operators *)

Range(q) == {q[n] : n \in 1..Len(q)}
Occurs(token, text) ==
    \E n \in 1..Len(text) : \E m \in n..Len(text) : SubSeq(text, n, m) = token

\* Status k says the feedstock needs an update.
NeedsUpdate(k) == statuses[k].success /\ statuses[k].needs_update
\* The packages of the needs-update batch.
Batch == {k \in Feedstocks : NeedsUpdate(k)}
\* Feedstock k needs an update and requires no package of the batch.
IsIndependent(k) ==
    /\ NeedsUpdate(k)
    /\ \A j \in Batch : PkgName(j) \notin statuses[k].data.reqs
\* Feedstock k needs an update and requires a package of the batch.
IsExcluded(k) ==
    /\ NeedsUpdate(k)
    /\ \E j \in Batch : PkgName(j) \in statuses[k].data.reqs
UpdateNames(updates) == [n \in 1..Len(updates) |-> updates[n][1].full_name]
Planned == pc \in {"update", "fork", "forking", "put", "render", "done", "aborted"}

-----------------------------------------------------------------------------
(* C1 *)

\* The batch of the example: the first feedstock requires the second, the second
\* requires nothing, both need an update and no other feedstock does.
ExampleBatch ==
    /\ Batch = {1, 2}
    /\ statuses[1].data.reqs = {PkgName(2)}
    /\ statuses[2].data.reqs = {}

\* C1: once the batch is planned, indep_updates holds, once each and in the
\* order of the batch, exactly the needs-update feedstocks whose requirements
\* name no package of the needs-update batch; for the batch {A requires B, B
\* requires nothing} it holds B alone.
C1_PlannedSubset ==
    Planned =>
        /\ \A k \in Feedstocks :
              FullName(k) \in Range(UpdateNames(indep_updates)) <=> IsIndependent(k)
        /\ Len(indep_updates) = Cardinality({k \in Feedstocks : IsIndependent(k)})
        /\ \A n \in 1..Len(indep_updates) : indep_updates[n] \in Range(can_be_updated)
        /\ ExampleBatch => UpdateNames(indep_updates) = <<FullName(2)>>

C1_Witness ==
    /\ pc = "update"
    /\ ExampleBatch
    /\ UpdateNames(can_be_updated) = <<FullName(1), FullName(2)>>
    /\ UpdateNames(indep_updates) = <<FullName(2)>>

-----------------------------------------------------------------------------
(* C2, C8 *)

HasFork(h) == UserForks(h) # <<>>
\* The user's fork holds commits its upstream lacks.
ForkAhead(h) == HasFork(h) /\ Head(UserForks(h)).own > 0
\* The upstream holds commits the user's fork lacks.
ForkBehind(h) == HasFork(h) /\ Head(UserForks(h)).missing > 0
CallsAfterGet ==
    IF HasFork(hub0) THEN SubSeq(calls, 2, Len(calls)) ELSE SubSeq(calls, 3, Len(calls))
Deletions == Cardinality({n \in 1..Len(calls) : calls[n] = "delete"})
CreationsAfterGet ==
    Cardinality({n \in 1..Len(CallsAfterGet) : CallsAfterGet[n] = "create_fork"})

\* C2: a fork that is ahead of its upstream is never deleted, and
\* even_feedstock_fork returns None for it.
C2_AheadNeverDeleted ==
    ForkAhead(hub0) =>
        /\ Deletions = 0
        /\ fork_pc = "done" => fork_out = NoneRepo

\* C8: the fork is deleted only when it is behind its upstream and not ahead;
\* when the deletion fails None is returned and no fork is created; when it
\* succeeds one fork is created and returned; a fork even with its upstream is
\* returned as it is, nothing deleted and nothing created after the
\* get-or-create.
C8_Reconciliation ==
    /\ Deletions > 0 => (ForkBehind(hub0) /\ ~ForkAhead(hub0))
    /\ Deletions <= 1
    /\ fork_pc = "done" =>
        /\ (Deletions = 1 /\ ~hub0.can_delete) =>
              (fork_out = NoneRepo /\ CreationsAfterGet = 0 /\ hub.forks = hub0.forks)
        /\ (Deletions = 1 /\ hub0.can_delete) =>
              (/\ CreationsAfterGet = 1
               /\ fork_out = Head(UserForks(hub))
               /\ fork_out.id # 1
               /\ fork_out.own = 0 /\ fork_out.missing = 0)
        /\ (~ForkAhead(hub0) /\ ~ForkBehind(hub0)) =>
              (/\ Deletions = 0
               /\ CreationsAfterGet = 0
               /\ fork_out = Head(UserForks(hub))
               /\ HasFork(hub0) => fork_out = Head(UserForks(hub0)))

-----------------------------------------------------------------------------
(* C3, C4, C7 *)

Evaluated(k) == pc # "idle" /\ k <= Len(statuses)
MetaYamlOf(k) == feedstocks[k].meta_yaml
Parses(k) == MetaYamlOf(k).render \in {"ok", "undefined_ok"} /\ MetaYamlOf(k).yaml.type = "dict"
HasNested(k, a, b) ==
    /\ Parses(k)
    /\ StrKey(a) \in DOMAIN MetaYamlOf(k).yaml.items
    /\ MetaYamlOf(k).yaml.items[StrKey(a)].type = "dict"
    /\ StrKey(b) \in DOMAIN MetaYamlOf(k).yaml.items[StrKey(a)].items
Nested(k, a, b) == MetaYamlOf(k).yaml.items[StrKey(a)].items[StrKey(b)].chars
AllPresent(k) == \A n \in 1..Len(RequiredKeys) :
                    HasNested(k, RequiredKeys[n][2][1], RequiredKeys[n][2][2])
IsMissingKeyFailure(st) ==
    /\ ~st.success
    /\ st.data[1] = "Missing meta.yaml key: [{}][{}]"

\* C3: no failure of one repository aborts the run: the run goes on to its
\* final report, in which every repository that was not updated is listed.
C3_NeverAborted ==
    /\ pc # "aborted"
    /\ pc = "done" =>
          \A k \in Feedstocks :
             ~NeedsUpdate(k) => FullName(k) \in {cannot_be_updated[n][1] :
                                                    n \in 1..Len(cannot_be_updated)}

\* C4: a recipe that parses, with the three required keys, whose version is at
\* least the index's is UpToDate, and no patch, fork or push is attempted for
\* it; one whose version is lower is NeedsUpdate.
C4_UpToDate ==
    \A k \in Feedstocks :
       (Evaluated(k) /\ AllPresent(k) /\ pypi_json[PkgName(k)].ok) =>
          IF ReleaseGE(parse_version(Nested(k, "package", "version")),
                       parse_version(pypi_json[PkgName(k)].version))
          THEN /\ statuses[k].success /\ ~statuses[k].needs_update
               /\ FullName(k) \notin Range(UpdateNames(can_be_updated))
          ELSE statuses[k].success /\ statuses[k].needs_update

\* C7: when a required nested key is absent the failure carries the path of
\* that key (source.sha256 absent, the other two present: the path is
\* source.sha256); when the three are present no missing-key failure is returned.
C7_MissingPath ==
    \A k \in Feedstocks :
       (Evaluated(k) /\ Parses(k)) =>
          /\ \A n \in 1..Len(RequiredKeys) :
                LET y == RequiredKeys[n][2] IN
                (/\ ~HasNested(k, y[1], y[2])
                 /\ \A m \in 1..(n - 1) :
                       HasNested(k, RequiredKeys[m][2][1], RequiredKeys[m][2][2]))
                => (~statuses[k].success /\ statuses[k].data = MissingKey(y))
          /\ AllPresent(k) => ~IsMissingKeyFailure(statuses[k])

-----------------------------------------------------------------------------
(* C5, C6 *)

Patched == patch_pc = "done"
\* The index shows a checksum for the new version of the bundle.
ChecksumAvailable == Page(1, patch_in.pypi_version) \in DOMAIN pypi_pages
VersionInText == Occurs(patch_in.yaml_strs.version, patch_in.text)
ShaInText == Occurs(patch_in.yaml_strs.sha256, patch_in.text)
Reasons == {"Couldn't get SHA from PyPI",
            "Couldn't find current version or SHA in meta.yaml"}

\* C5: with a checksum available and both the old version and the old checksum
\* in the text, basic_patch returns (True, payload): the payload's body is the
\* text with the old version replaced by the new, then the old checksum by the
\* new; its handle is the blob_sha passed in; its message holds the new version.
C5_PatchApplied ==
    (Patched /\ ChecksumAvailable /\ VersionInText /\ ShaInText) =>
        /\ ~Raised(patch_out)
        /\ patch_out.val[1] = TRUE
        /\ patch_out.val[2].content =
              b64encode(replace(replace(patch_in.text, patch_in.yaml_strs.version,
                                        patch_in.pypi_version),
                                OldSha, NewSha))
        /\ patch_out.val[2].sha = patch_in.blob_sha
        /\ Occurs(patch_in.pypi_version, patch_out.val[2].message)

\* C6: when the text lacks the old version or lacks the old checksum, or when
\* the index shows no checksum, basic_patch returns (False, reason) and builds
\* no payload.
C6_PatchRejected ==
    (Patched /\ (~VersionInText \/ ~ShaInText \/ ~ChecksumAvailable)) =>
        /\ ~Raised(patch_out)
        /\ patch_out.val[1] = FALSE
        /\ patch_out.val[2] \in Reasons

C6_Witness ==
    /\ Patched
    /\ ChecksumAvailable
    /\ ~VersionInText
    /\ ShaInText
    /\ patch_out.val = <<FALSE, "Couldn't find current version or SHA in meta.yaml">>

-----------------------------------------------------------------------------
(* C9, C10 *)

Ops(op) == {n \in 1..Len(log) : log[n].op = op}
Ended == pc \in {"done", "aborted"}
InCannot(k) == FullName(k) \in {cannot_be_updated[n][1] : n \in 1..Len(cannot_be_updated)}
InFailed(k) == FullName(k) \in Range(UpdateNames(failed_updates))
InSuccessful(k) == FullName(k) \in Range(UpdateNames(successful_updates))
Outcomes(k) ==
    (IF InCannot(k) THEN {"cannot"} ELSE {})
    \cup (IF InFailed(k) THEN {"failed"} ELSE {})
    \cup (IF InSuccessful(k) THEN {"successful"} ELSE {})
Reported ==
    /\ Ops("Couldn't update:") # {}
    /\ \A n \in Ops("Couldn't update:") : log[n].lines = cannot_be_updated
    /\ \A n \in Ops("Failed to update:") : log[n].lines = UpdateNames(failed_updates)

-----------------------------------------------------------------------------
(* Why no run pushes *)

\* Under Spec: feedstock_status returns no status that needs an update.
NoUpdateInARun == can_be_updated = <<>> /\ \A k \in 1..Len(statuses) : ~NeedsUpdate(k)

\* Under SpecTick: basic_patch returns no payload, so the update loop never
\* reaches the fork, the push or the re-rendering of a fork.
NoPushInARun ==
    /\ pc \notin {"fork", "forking", "put"}
    /\ successful_updates = <<>>
    /\ successful_forks = <<>>

====
